---- MODULE Spec2Model ----
(***************************************************************************)
(* Travel destination selector (src/travel.py).                            *)
(*                                                                         *)
(* main() asks six preference questions and seven interest questions, each *)
(* in a retry loop that re-asks until the answer is valid, then makes one  *)
(* pass over the destination catalog: five filters, then a best-so-far     *)
(* fold on a composite score, then prints the result.                      *)
(*                                                                         *)
(* Python strings the program inspects (typed answers, option labels, the  *)
(* fields of a destination) are sequences of one-character strings, so     *)
(* that int(), split(','), lower(), title() and len() are computed.        *)
(* Dictionary keys, display names and printed messages are plain strings.  *)
(***************************************************************************)
EXTENDS Integers, Sequences, FiniteSets, TLC

VARIABLES
    pc,         \* where main() is: "name", "questions", "interests", "select",
                \* "loop", "done", or "raised" (ended by an uncaught exception)
    qi,         \* position in QUESTIONS, then in INTEREST_INPUT
    response,   \* <<typed>> while a retry loop holds a rejected answer, else <<>>
    responses,  \* dict: question key -> answer
    interests,  \* dict: interest key -> level
    catalog,    \* the list returned by Destinations().get_all()
    idx,        \* number of catalog entries the for loop has taken
    match,      \* best destination so far, as its position in catalog; 0 is None
    shown       \* the result line printed after the closing banner

vars == <<pc, qi, response, responses, interests, catalog, idx, match, shown>>

(***************************************************************************)
(* Bounds of the model.                                                    *)
(***************************************************************************)
\* longest catalog Destinations().get_all() returns in the model
MaxCatalog == 3

(***************************************************************************)
(* Python str operations.                                                  *)
(***************************************************************************)
LowerLetters == <<"a","b","c","d","e","f","g","h","i","j","k","l","m",
                  "n","o","p","q","r","s","t","u","v","w","x","y","z">>

UpperLetters == <<"A","B","C","D","E","F","G","H","I","J","K","L","M",
                  "N","O","P","Q","R","S","T","U","V","W","X","Y","Z">>

Digits == <<"0","1","2","3","4","5","6","7","8","9">>

Range(f) == {f[i] : i \in DOMAIN f}

\* the characters that occur in the model
Alphabet ==
    Range(LowerLetters) \cup Range(UpperLetters) \cup Range(Digits)
        \cup {" ", ",", "$", "+", "-", "."}

\* the case mappings and character classes, tabulated over Alphabet
ToLower ==
    [c \in Alphabet |->
        IF \E i \in DOMAIN UpperLetters : UpperLetters[i] = c
        THEN LowerLetters[CHOOSE i \in DOMAIN UpperLetters : UpperLetters[i] = c]
        ELSE c]

ToUpper ==
    [c \in Alphabet |->
        IF \E i \in DOMAIN LowerLetters : LowerLetters[i] = c
        THEN UpperLetters[CHOOSE i \in DOMAIN LowerLetters : LowerLetters[i] = c]
        ELSE c]

Letters == Range(LowerLetters) \cup Range(UpperLetters)

DigitValue == [c \in Range(Digits) |-> (CHOOSE i \in DOMAIN Digits : Digits[i] = c) - 1]

IsLetter(c) == c \in Letters

IsDigit(c) == c \in DOMAIN DigitValue

LowerChar(c) == ToLower[c]

UpperChar(c) == ToUpper[c]

\* str.lower()
Lower(s) == [i \in 1..Len(s) |-> LowerChar(s[i])]

\* str.title(): a letter that starts a word is upper-cased, every other
\* letter is lower-cased; a word starts after any non-letter.
Title(s) ==
    [i \in 1..Len(s) |->
        IF i = 1 \/ ~IsLetter(s[i - 1]) THEN UpperChar(s[i]) ELSE LowerChar(s[i])]

\* str.strip() for the blank character
RECURSIVE Strip(_)
Strip(s) ==
    IF s = <<>> THEN s
    ELSE IF Head(s) = " " THEN Strip(Tail(s))
    ELSE IF s[Len(s)] = " " THEN Strip(SubSeq(s, 1, Len(s) - 1))
    ELSE s

\* str.split(sep): always at least one piece, pieces may be empty
RECURSIVE Split(_, _)
Split(s, sep) ==
    IF \A i \in 1..Len(s) : s[i] # sep THEN <<s>>
    ELSE LET k == CHOOSE i \in 1..Len(s) :
                     s[i] = sep /\ \A j \in 1..(i - 1) : s[j] # sep
         IN  <<SubSeq(s, 1, k - 1)>> \o Split(SubSeq(s, k + 1, Len(s)), sep)

RECURSIVE DigitsVal(_)
DigitsVal(s) ==
    IF s = <<>> THEN 0
    ELSE 10 * DigitsVal(SubSeq(s, 1, Len(s) - 1)) + DigitValue[s[Len(s)]]

\* int(str): surrounding blanks are ignored, one optional sign, then one
\* or more decimal digits; anything else raises ValueError (ok = FALSE).
int(s) ==
    LET t      == Strip(s)
        signed == t # <<>> /\ Head(t) \in {"+", "-"}
        body   == IF signed THEN Tail(t) ELSE t
        ok     == body # <<>> /\ \A i \in 1..Len(body) : IsDigit(body[i])
    IN  [ok  |-> ok,
         val |-> IF ~ok THEN 0
                 ELSE IF signed /\ Head(t) = "-" THEN 0 - DigitsVal(body)
                 ELSE DigitsVal(body)]

\* list.index(x): position (from 1) of the first occurrence, 0 stands for
\* the ValueError raised when x is not in the list
index(list, x) ==
    IF \E i \in 1..Len(list) : list[i] = x
    THEN CHOOSE i \in 1..Len(list) : list[i] = x /\ \A j \in 1..(i - 1) : list[j] # x
    ELSE 0

(***************************************************************************)
(* The question tables.                                                    *)
(***************************************************************************)
CONTINENT_INPUT ==
    << <<"A","s","i","a">>,
       <<"A","f","r","i","c","a">>,
       <<"N","o","r","t","h"," ","A","m","e","r","i","c","a">>,
       <<"S","o","u","t","h"," ","A","m","e","r","i","c","a">>,
       <<"E","u","r","o","p","e">>,
       <<"O","c","e","a","n","i","a">>,
       <<"A","n","t","a","r","c","t","i","c","a">> >>

\* (selection, description) pairs
COST_INPUT ==
    << << <<"$","$","$">>, "No object" >>,
       << <<"$","$">>, "Spendable, so long as I get value from doing so" >>,
       << <<"$">>, "Extremely important; I want to spend as little as possible" >> >>

CRIME_INPUT == << <<"L","o","w">>, <<"A","v","e","r","a","g","e">>, <<"H","i","g","h">> >>

CHILDREN_INPUT == << <<"Y","e","s">>, <<"N","o">> >>

SEASON_INPUT ==
    << <<"S","p","r","i","n","g">>, <<"S","u","m","m","e","r">>,
       <<"A","u","t","u","m","n">>, <<"W","i","n","t","e","r">> >>

CLIMATE_INPUT ==
    << <<"C","o","l","d">>, <<"C","o","o","l">>, <<"M","o","d","e","r","a","t","e">>,
       <<"W","a","r","m">>, <<"H","o","t">> >>

\* (key, options, type)
QUESTIONS ==
    << [key |-> "continent", options |-> CONTINENT_INPUT, type |-> "multiple_numeric"],
       [key |-> "cost",      options |-> COST_INPUT,      type |-> "string"],
       [key |-> "crime",     options |-> CRIME_INPUT,     type |-> "numeric"],
       [key |-> "kids",      options |-> CHILDREN_INPUT,  type |-> "numeric"],
       [key |-> "season",    options |-> SEASON_INPUT,    type |-> "multiple_numeric"],
       [key |-> "climate",   options |-> CLIMATE_INPUT,   type |-> "numeric"] >>

\* (key, label)
INTEREST_INPUT ==
    << <<"sports", "sports">>,
       <<"wildlife", "wildlife">>,
       <<"nature", "nature">>,
       <<"historical", "historical sites">>,
       <<"cuisine", "fine dining">>,
       <<"adventure", "adventure activities">>,
       <<"beach", "the beach">> >>

InterestKeys == {INTEREST_INPUT[i][1] : i \in DOMAIN INTEREST_INPUT}

(***************************************************************************)
(* One pass of each retry loop: the value returned for a typed answer, or  *)
(* ok = FALSE when the loop prints its error and asks again.  The          *)
(* definitions named ..._variant are deliberately altered copies of the    *)
(* definition that follows them; they are used only to show that a         *)
(* property depends on the definition they alter.                          *)
(***************************************************************************)
input_numeric_options(options, typed) ==
    LET number == int(typed)
        ok == number.ok /\ 1 <= number.val /\ number.val <= Len(options)
    IN  [ok |-> ok, val |-> IF ok THEN options[number.val] ELSE <<>>]

input_str_options(options, typed) ==
    LET valid_responses == {options[i][1] : i \in DOMAIN options}
    IN  [ok |-> typed \in valid_responses, val |-> typed]

\* variant: a piece that is not a valid option number is dropped instead
\* of rejecting the whole answer
input_multiple_numeric_options_variant(options, typed) ==
    LET parts == Split(typed, ",")
        good(p) == LET option == int(p)
                   IN  option.ok /\ 1 <= option.val /\ option.val <= Len(options)
        kept == SelectSeq(parts, good)
    IN  [ok |-> TRUE, val |-> [i \in 1..Len(kept) |-> options[int(kept[i]).val]]]

input_multiple_numeric_options(options, typed) ==
    LET parts == Split(typed, ",")
        good(p) == LET option == int(p)
                   IN  option.ok /\ 1 <= option.val /\ option.val <= Len(options)
        ok == \A i \in 1..Len(parts) : good(parts[i])
    IN  [ok |-> ok,
         val |-> IF ok THEN [i \in 1..Len(parts) |-> options[int(parts[i]).val]] ELSE <<>>]

input_interest_question(typed) ==
    LET number == int(typed)
        ok == number.ok /\ -5 <= number.val /\ number.val <= 5
    IN  [ok |-> ok, val |-> IF ok THEN number.val ELSE 0]

\* the dispatch on the question type in main()
Ask(q, typed) ==
    IF q.type = "numeric" THEN input_numeric_options(q.options, typed)
    ELSE IF q.type = "multiple_numeric" THEN input_multiple_numeric_options(q.options, typed)
    ELSE input_str_options(q.options, typed)

(***************************************************************************)
(* Destination records (class Destination of module destinations).         *)
(***************************************************************************)
SeasonKeys == {Lower(SEASON_INPUT[i]) : i \in DOMAIN SEASON_INPUT}

\* sf: the season factors in the order of SEASON_INPUT;
\* is: the interest scores in the order of INTEREST_INPUT
Destination(name, continent, crime, cost, kid_friendly, climate, sf, is) ==
    [name          |-> name,
     continent     |-> continent,
     crime         |-> crime,
     cost          |-> cost,
     kid_friendly  |-> kid_friendly,
     climate       |-> climate,
     season_factor |-> [s \in SeasonKeys |->
                          sf[CHOOSE i \in DOMAIN SEASON_INPUT : Lower(SEASON_INPUT[i]) = s]],
     interest_score |-> [k \in InterestKeys |->
                          is[CHOOSE i \in DOMAIN INTEREST_INPUT : INTEREST_INPUT[i][1] = k]]]

get_name(d) == d.name

get_continent(d) == d.continent

get_crime(d) == d.crime

get_cost(d) == d.cost

is_kid_friendly(d) == d.kid_friendly

get_climate(d) == d.climate

get_season_factor(d, season) == d.season_factor[season]

get_interest_score(d, key) == d.interest_score[key]

\* records that satisfy the data model: continent and crime level are
\* enumeration labels, the cost tier is one to three symbols, the climate
\* is an enumeration label in lowercase
Kyoto ==
    Destination("Kyoto", <<"A","s","i","a">>, <<"L","o","w">>, <<"$">>, TRUE,
                <<"w","a","r","m">>, <<2, 3, 0, 0>>, <<1, 0, 1, 1, 0, 0, 0>>)

Nairobi ==
    Destination("Nairobi", <<"A","f","r","i","c","a">>, <<"A","v","e","r","a","g","e">>,
                <<"$","$">>, FALSE,
                <<"w","a","r","m">>, <<1, 3, 0, 0>>, <<0, 2, 1, 0, 0, 0, 1>>)

Hanoi ==
    Destination("Hanoi", <<"A","s","i","a">>, <<"A","v","e","r","a","g","e">>, <<"$">>, TRUE,
                <<"w","a","r","m">>, <<1, 1, 2, 0>>, <<2, 1, 1, 1, 1, 0, 0>>)

Manila ==
    Destination("Manila", <<"A","s","i","a">>, <<"L","o","w">>, <<"$">>, FALSE,
                <<"c","o","o","l">>, <<0, 2, 1, 3>>, <<1, 1, 1, 1, 1, 1, 0>>)

Seoul ==
    Destination("Seoul", <<"A","s","i","a">>, <<"H","i","g","h">>, <<"$","$","$">>, TRUE,
                <<"w","a","r","m">>, <<0, 2, 1, 1>>, <<-1, 0, 1, 0, 0, 0, 1>>)

DestinationPool == {Kyoto, Nairobi, Hanoi, Manila, Seoul}

\* records as a catalog file may hold them: other letter case, values
\* outside the enumerations
Cairo ==
    Destination("Cairo", <<"A","f","r","i","c","a">>, <<"L","o","w">>, <<"$">>, TRUE,
                <<"W","a","r","m">>, <<1, 1, 1, 1>>, <<1, 1, 1, 1, 1, 1, 1>>)

Delhi ==
    Destination("Delhi", <<"a","s","i","a">>, <<"l","o","w">>, <<"$">>, TRUE,
                <<"w","a","r","m">>, <<1, 2, 1, 1>>, <<1, 0, 0, 0, 0, 0, 1>>)

Atlantis ==
    Destination("Atlantis", <<"A","t","l","a","n","t","i","s">>, <<"L","o","w">>, <<"$">>, TRUE,
                <<"w","a","r","m">>, <<1, 1, 1, 1>>, <<1, 1, 1, 1, 1, 1, 1>>)

Lagos ==
    Destination("Lagos", <<"A","f","r","i","c","a">>, <<"M","e","d","i","u","m">>, <<"$">>, TRUE,
                <<"w","a","r","m">>, <<1, 1, 1, 1>>, <<1, 1, 1, 1, 1, 1, 1>>)

Macau ==
    Destination("Macau", <<"A","s","i","a">>, <<"L","o","w">>, <<"$","$","$","$">>, TRUE,
                <<"t","r","o","p","i","c","a","l">>, <<1, 1, 1, 1>>, <<1, 1, 1, 1, 1, 1, 1>>)

FilePool == {Cairo, Delhi, Atlantis, Lagos, Macau}

\* the catalogs get_all() may return: at most MaxCatalog records of the
\* pool, in any order, names unique
Catalogs(pool) ==
    {c \in UNION {[1..n -> pool] : n \in 0..MaxCatalog} :
        \A i, j \in DOMAIN c : c[i] = c[j] => i = j}

(***************************************************************************)
(* The answers typed at the prompts.                                       *)
(***************************************************************************)
TypedMultiple ==
    { <<>>, <<"1">>, <<"1",",","2">>, <<"1",","," ","2">>, <<"1",",","x">>,
      <<"1",",">>, <<"0">>, <<"9">> }

TypedNumeric ==
    { <<>>, <<"x">>, <<"0">>, <<"1">>, <<"2">>, <<"4">>, <<"-","1">>, <<"1",",","2">> }

TypedString ==
    { <<>>, <<"1">>, <<"$">>, <<"$","$">>, <<"$","$","$","$">>, <<" ","$">> }

\* two interests are answered with several levels, the others with one
TypedInterest(key) ==
    IF key = "sports"
    THEN { <<>>, <<"x">>, <<"6">>, <<"-","6">>, <<"2",".","5">>,
           <<"-","5">>, <<"0">>, <<" ","2">> }
    ELSE IF key = "beach"
    THEN { <<>>, <<"-","5">>, <<"+","2">>, <<"5","5">> }
    ELSE { <<"x">>, <<"1","0">>, <<"1">> }

Typed(type) ==
    IF type = "numeric" THEN TypedNumeric
    ELSE IF type = "multiple_numeric" THEN TypedMultiple
    ELSE TypedString

(***************************************************************************)
(* The filters of the matching loop.  Each is TRUE when the loop body      *)
(* executes `continue` for destination d under the responses r.            *)
(***************************************************************************)
wrong_continent(d, r) == Title(get_continent(d)) \notin Range(r["continent"])

\* 0 when CRIME_INPUT[1].index(...) raises ValueError
crime_rank(d) == index(CRIME_INPUT, Title(get_crime(d)))

\* variant: the comparison is reversed
too_much_crime_variant(d, r) == crime_rank(d) < index(CRIME_INPUT, r["crime"])

too_much_crime(d, r) == crime_rank(d) > index(CRIME_INPUT, r["crime"])

\* variant: a destination exactly at the cost tolerance is skipped
too_expensive_variant(d, r) == Len(get_cost(d)) >= Len(r["cost"])

too_expensive(d, r) == Len(get_cost(d)) > Len(r["cost"])

\* variant: the children requirement is never applied
not_for_kids_variant(d, r) == FALSE

not_for_kids(d, r) == r["kids"] = <<"Y","e","s">> /\ ~is_kid_friendly(d)

\* variant: only the first letter is compared
wrong_climate_variant(d, r) ==
    get_climate(d) = <<>> \/ Lower(r["climate"])[1] # get_climate(d)[1]

wrong_climate(d, r) == Lower(r["climate"]) # get_climate(d)

\* what the loop body does with d before the scoring step
Examine(d, r) ==
    IF wrong_continent(d, r) THEN "continue"
    ELSE IF crime_rank(d) = 0 THEN "ValueError"
    ELSE IF too_much_crime(d, r) THEN "continue"
    ELSE IF too_expensive(d, r) THEN "continue"
    ELSE IF not_for_kids(d, r) THEN "continue"
    ELSE IF wrong_climate(d, r) THEN "continue"
    ELSE "candidate"

(***************************************************************************)
(* The scoring step.                                                       *)
(***************************************************************************)
Max(S) == CHOOSE m \in S : \A x \in S : x <= m

RECURSIVE Sum(_, _)
Sum(f, S) ==
    IF S = {} THEN 0
    ELSE LET k == CHOOSE x \in S : TRUE IN f[k] + Sum(f, S \ {k})

\* max(d.get_season_factor(season.lower()) for season in responses['season'])
season_score(d, r) ==
    Max({get_season_factor(d, Lower(r["season"][i])) : i \in DOMAIN r["season"]})

\* sum(response * d.get_interest_score(key) for key, response in interests.items())
interest_sum(d, ints) ==
    Sum([key \in DOMAIN ints |-> ints[key] * get_interest_score(d, key)], DOMAIN ints)

composite(d, r, ints) == season_score(d, r) * interest_sum(d, ints)

\* variant: a destination with an equal score also replaces the match
Replaces_variant(score, prev_score) == score >= prev_score

\* if score > prev_score
Replaces(score, prev_score) == score > prev_score

\* variant: the loop skips every other entry
NextEntry_variant(i) == i + 2

\* the for statement takes the entries of the list one after the other
NextEntry(i) == i + 1

(***************************************************************************)
(* The program.                                                            *)
(***************************************************************************)
Init ==
    /\ pc = "name"
    /\ qi = 0
    /\ response = <<>>
    /\ responses = <<>>
    /\ interests = <<>>
    /\ catalog = <<>>
    /\ idx = 0
    /\ match = 0
    /\ shown = ""

\* the greeting; the name typed is printed back and not used again
AskName ==
    /\ pc = "name"
    /\ pc' = "questions"
    /\ qi' = 1
    /\ UNCHANGED <<response, responses, interests, catalog, idx, match, shown>>

\* one answer to the current preference question
AnswerQuestion ==
    /\ pc = "questions"
    /\ \E typed \in Typed(QUESTIONS[qi].type) :
         LET answer == Ask(QUESTIONS[qi], typed) IN
         IF answer.ok
         THEN /\ responses' = responses @@ (QUESTIONS[qi].key :> answer.val)
              /\ response' = <<>>
              /\ qi' = IF qi < Len(QUESTIONS) THEN qi + 1 ELSE 1
              /\ pc' = IF qi < Len(QUESTIONS) THEN "questions" ELSE "interests"
         ELSE /\ response' = <<typed>>
              /\ UNCHANGED <<responses, qi, pc>>
    /\ UNCHANGED <<interests, catalog, idx, match, shown>>

\* one answer to the current interest question
AnswerInterest ==
    /\ pc = "interests"
    /\ \E typed \in TypedInterest(INTEREST_INPUT[qi][1]) :
         LET answer == input_interest_question(typed) IN
         IF answer.ok
         THEN /\ interests' = interests @@ (INTEREST_INPUT[qi][1] :> answer.val)
              /\ response' = <<>>
              /\ qi' = IF qi < Len(INTEREST_INPUT) THEN qi + 1 ELSE qi
              /\ pc' = IF qi < Len(INTEREST_INPUT) THEN "interests" ELSE "select"
         ELSE /\ response' = <<typed>>
              /\ UNCHANGED <<interests, qi, pc>>
    /\ UNCHANGED <<responses, catalog, idx, match, shown>>

\* match = None, and the for statement evaluates Destinations().get_all()
LoadCatalog(pool) ==
    /\ pc = "select"
    /\ match' = 0
    /\ catalog' \in Catalogs(pool)
    /\ idx' = 0
    /\ pc' = "loop"
    /\ UNCHANGED <<qi, response, responses, interests, shown>>

\* one iteration of the for loop
MatchStep ==
    /\ pc = "loop"
    /\ idx < Len(catalog)
    /\ LET destination == catalog[idx + 1]
           verdict == Examine(destination, responses)
       IN  /\ idx' = NextEntry(idx)
           /\ pc' = IF verdict = "ValueError" THEN "raised" ELSE "loop"
           /\ match' =
                IF verdict # "candidate" THEN match
                ELSE IF match = 0 THEN idx + 1
                ELSE IF Replaces(composite(destination, responses, interests),
                                 composite(catalog[match], responses, interests))
                     THEN idx + 1
                ELSE match
    /\ UNCHANGED <<qi, response, responses, interests, catalog, shown>>

\* the closing banner and the result line
Report ==
    /\ pc = "loop"
    /\ idx = Len(catalog)
    /\ shown' = IF match = 0 THEN "None" ELSE get_name(catalog[match])
    /\ pc' = "done"
    /\ UNCHANGED <<qi, response, responses, interests, catalog, idx, match>>

\* the catalog satisfies the data model
Next ==
    \/ AskName
    \/ AnswerQuestion
    \/ AnswerInterest
    \/ LoadCatalog(DestinationPool)
    \/ MatchStep
    \/ Report

Spec == Init /\ [][Next]_vars

\* the same program over the catalogs of four of the records; the matching
\* loop and the report are sequential code that nothing interrupts, hence
\* the weak fairness of the two actions
NextLive ==
    \/ AskName
    \/ AnswerQuestion
    \/ AnswerInterest
    \/ LoadCatalog(DestinationPool \ {Seoul})
    \/ MatchStep
    \/ Report

LiveSpec == Init /\ [][NextLive]_vars /\ WF_vars(MatchStep) /\ WF_vars(Report)

\* the catalog is whatever the catalog file holds
NextFile ==
    \/ AskName
    \/ AnswerQuestion
    \/ AnswerInterest
    \/ LoadCatalog(FilePool)
    \/ MatchStep
    \/ Report

FileSpec == Init /\ [][NextFile]_vars

TypeOK ==
    /\ pc \in {"name", "questions", "interests", "select", "loop", "done", "raised"}
    /\ idx \in 0..Len(catalog)
    /\ match \in 0..idx

(***************************************************************************)
(* The vocabulary of the properties, written from the data model and not   *)
(* from the loop: eligibility by the five conditions, the composite score  *)
(* by its formula.                                                         *)
(***************************************************************************)
CrimeOrdinal(level) ==
    CASE level = <<"L","o","w">> -> 0
      [] level = <<"A","v","e","r","a","g","e">> -> 1
      [] level = <<"H","i","g","h">> -> 2

\* the enumeration label of a climate stored in lowercase
ClimateLabel(stored) ==
    CHOOSE label \in Range(CLIMATE_INPUT) : Lower(label) = stored

IsEligible(d, r) ==
    /\ d.continent \in Range(r["continent"])
    /\ CrimeOrdinal(d.crime) <= CrimeOrdinal(r["crime"])
    /\ Len(d.cost) <= Len(r["cost"])
    /\ (r["kids"] = <<"Y","e","s">> => d.kid_friendly)
    /\ ClimateLabel(d.climate) = r["climate"]

SeasonScore(d, r) ==
    LET factors == {d.season_factor[Lower(s)] : s \in Range(r["season"])}
    IN  CHOOSE m \in factors : \A f \in factors : f <= m

InterestScore(d, ints) ==
      ints["sports"] * d.interest_score["sports"]
    + ints["wildlife"] * d.interest_score["wildlife"]
    + ints["nature"] * d.interest_score["nature"]
    + ints["historical"] * d.interest_score["historical"]
    + ints["cuisine"] * d.interest_score["cuisine"]
    + ints["adventure"] * d.interest_score["adventure"]
    + ints["beach"] * d.interest_score["beach"]

CompositeScore(d) == SeasonScore(d, responses) * InterestScore(d, interests)

\* positions of the eligible destinations among the first n catalog entries
EligibleIn(n) == {i \in 1..n : IsEligible(catalog[i], responses)}

Matching == pc \in {"loop", "done", "raised"}

(***************************************************************************)
(* C1: when the run is done, the selected destination is an eligible one   *)
(* with the maximum composite score, and among the eligible destinations   *)
(* with that score it is the earliest in catalog order.                    *)
(***************************************************************************)
C1_SelectsEarliestMaximum ==
    (pc = "done" /\ EligibleIn(Len(catalog)) # {}) =>
        /\ match \in EligibleIn(Len(catalog))
        /\ \A j \in EligibleIn(Len(catalog)) :
             /\ CompositeScore(catalog[j]) <= CompositeScore(catalog[match])
             /\ CompositeScore(catalog[j]) = CompositeScore(catalog[match]) => match <= j

\* done, the winner ties with a later eligible entry, and an eligible entry
\* with a smaller score sits before the winner
C1_Witness ==
    /\ pc = "done"
    /\ match # 0
    /\ \E j, k \in EligibleIn(Len(catalog)) :
         /\ j > match
         /\ CompositeScore(catalog[j]) = CompositeScore(catalog[match])
         /\ k < match
         /\ CompositeScore(catalog[k]) < CompositeScore(catalog[match])

(***************************************************************************)
(* C2: with climates stored in lowercase, a destination passes the five    *)
(* filters of the loop body exactly when the five eligibility conditions   *)
(* hold.                                                                   *)
(***************************************************************************)
C2_FiltersAreTheFiveConditions ==
    (Matching /\ \A i \in DOMAIN catalog : catalog[i].climate = Lower(catalog[i].climate)) =>
        \A i \in DOMAIN catalog :
            (Examine(catalog[i], responses) = "candidate") <=> IsEligible(catalog[i], responses)

\* the loop has examined an eligible and a non-eligible destination
C2_Witness ==
    /\ pc = "loop"
    /\ \E i, j \in 1..idx :
         /\ IsEligible(catalog[i], responses)
         /\ ~IsEligible(catalog[j], responses)
         /\ match = i

(***************************************************************************)
(* C3: no destination that fails a filter is ever selected; when no        *)
(* catalog entry is eligible (or the catalog is empty) the loop raises no  *)
(* exception and the run ends with match = None.                           *)
(***************************************************************************)
C3_NoMatchIsNone ==
    /\ match # 0 => IsEligible(catalog[match], responses)
    /\ (Matching /\ EligibleIn(Len(catalog)) = {}) => (match = 0 /\ pc # "raised")

\* done over a non-empty catalog with nothing selected
C3_Witness ==
    /\ pc = "done"
    /\ Len(catalog) >= 2
    /\ EligibleIn(Len(catalog)) = {}
    /\ match = 0

(***************************************************************************)
(* C4: a destination that passes the filters still passes them after one   *)
(* tolerance is relaxed: a higher crime tolerance, a higher cost           *)
(* tolerance, one more continent, one more season, or children Yes -> No.  *)
(***************************************************************************)
Relaxations(r) ==
    {[r EXCEPT !["crime"] = CRIME_INPUT[k]] :
        k \in {n \in DOMAIN CRIME_INPUT : CrimeOrdinal(CRIME_INPUT[n]) > CrimeOrdinal(r["crime"])}}
    \cup
    {[r EXCEPT !["cost"] = COST_INPUT[k][1]] :
        k \in {n \in DOMAIN COST_INPUT : Len(COST_INPUT[n][1]) > Len(r["cost"])}}
    \cup
    {[r EXCEPT !["continent"] = Append(@, c)] :
        c \in Range(CONTINENT_INPUT) \ Range(r["continent"])}
    \cup
    {[r EXCEPT !["season"] = Append(@, s)] :
        s \in Range(SEASON_INPUT) \ Range(r["season"])}
    \cup
    (IF r["kids"] = <<"Y","e","s">> THEN {[r EXCEPT !["kids"] = <<"N","o">>]} ELSE {})

C4_FilterMonotonicity ==
    Matching =>
        \A i \in DOMAIN catalog :
            Examine(catalog[i], responses) = "candidate"
                => \A relaxed \in Relaxations(responses) :
                       Examine(catalog[i], relaxed) = "candidate"

\* the loop selected a destination under responses that can still be
\* relaxed in all five ways, and skipped one that a relaxation admits
C4_Witness ==
    /\ pc = "loop"
    /\ match # 0
    /\ responses["crime"] = <<"L","o","w">>
    /\ responses["cost"] = <<"$">>
    /\ responses["kids"] = <<"Y","e","s">>
    /\ \E j \in 1..idx : \E relaxed \in Relaxations(responses) :
         /\ Examine(catalog[j], responses) = "continue"
         /\ Examine(catalog[j], relaxed) = "candidate"

(***************************************************************************)
(* C5: the climate filter ignores letter case on both sides: when the run  *)
(* is done, a destination has been selected exactly when some catalog      *)
(* entry passes the other four filters and has the preferred climate up to *)
(* letter case.  FileSpec refutes it: a climate stored as "Warm" never     *)
(* equals the lowercased answer "warm".                                    *)
(***************************************************************************)
PassesOtherFilters(d, r) ==
    /\ ~wrong_continent(d, r)
    /\ crime_rank(d) # 0
    /\ ~too_much_crime(d, r)
    /\ ~too_expensive(d, r)
    /\ ~not_for_kids(d, r)

C5_ClimateComparedIgnoringCase ==
    pc = "done" =>
        (match # 0 <=>
            \E i \in DOMAIN catalog :
                /\ PassesOtherFilters(catalog[i], responses)
                /\ Lower(catalog[i].climate) = Lower(responses["climate"]))

(***************************************************************************)
(* C6: when the matching loop starts the responses are well formed, at     *)
(* every moment each stored answer is a valid one, and a rejected answer   *)
(* changes neither the responses nor the question being asked.             *)
(***************************************************************************)
CostSelections == {COST_INPUT[i][1] : i \in DOMAIN COST_INPUT}

ValidAnswer(key, value) ==
    CASE key = "continent" -> value # <<>> /\ Range(value) \subseteq Range(CONTINENT_INPUT)
      [] key = "season"    -> value # <<>> /\ Range(value) \subseteq Range(SEASON_INPUT)
      [] key = "cost"      -> value \in CostSelections
      [] key = "crime"     -> value \in Range(CRIME_INPUT)
      [] key = "kids"      -> value \in Range(CHILDREN_INPUT)
      [] key = "climate"   -> value \in Range(CLIMATE_INPUT)

QuestionKeys == {"continent", "cost", "crime", "kids", "season", "climate"}

NothingInvalidStored ==
    /\ DOMAIN responses \subseteq QuestionKeys
    /\ \A key \in DOMAIN responses : ValidAnswer(key, responses[key])
    /\ DOMAIN interests \subseteq InterestKeys
    /\ \A key \in DOMAIN interests : interests[key] \in -5..5

WellFormed ==
    /\ NothingInvalidStored
    /\ DOMAIN responses = QuestionKeys
    /\ DOMAIN interests = InterestKeys

C6_ResponsesWellFormed ==
    /\ [](NothingInvalidStored /\ (pc \in {"select", "loop", "done", "raised"} => WellFormed))
    /\ [][response' # <<>> =>
            (responses' = responses /\ interests' = interests /\ qi' = qi /\ pc' = pc)]_vars

\* the loop starts after answers with two continents, two seasons and a
\* negative interest
C6_Witness ==
    /\ pc = "loop"
    /\ idx = 0
    /\ Len(responses["continent"]) = 2
    /\ Len(responses["season"]) = 2
    /\ interests["sports"] = -5

(***************************************************************************)
(* C7: a run whose catalog holds a record with a continent, crime level,   *)
(* cost tier or climate outside its enumeration does not end with a        *)
(* result.  FileSpec refutes it: only an unknown crime level of a          *)
(* destination on a selected continent raises; the other records are       *)
(* skipped and the result is printed.                                      *)
(***************************************************************************)
InEnumeration(d) ==
    /\ Title(d.continent) \in Range(CONTINENT_INPUT)
    /\ Title(d.crime) \in Range(CRIME_INPUT)
    /\ d.cost \in CostSelections
    /\ Title(d.climate) \in Range(CLIMATE_INPUT)

C7_FailsFastOnUnknownValue ==
    pc = "done" => \A i \in DOMAIN catalog : InEnumeration(catalog[i])

(***************************************************************************)
(* C8: the result line is the name of the selected destination, or the     *)
(* no-match message when nothing is selected.  Spec refutes it: the line   *)
(* printed for no match is the text of None.                               *)
(***************************************************************************)
NoMatchMessage == "no destination matched your preferences"

C8_ResultLine ==
    pc = "done" =>
        shown = (IF match = 0 THEN NoMatchMessage ELSE catalog[match].name)

(***************************************************************************)
(* C9: fold invariant.  After any prefix of the catalog, match is None     *)
(* exactly when the prefix has no eligible destination and is otherwise an *)
(* eligible destination of the prefix; the first eligible destination is   *)
(* taken as it is; match never returns to None; match changes only to a    *)
(* destination with a strictly greater composite score.                    *)
(***************************************************************************)
C9_FoldInvariant ==
    /\ [](pc \in {"loop", "done"} =>
            /\ match = 0 <=> EligibleIn(idx) = {}
            /\ match # 0 => match \in EligibleIn(idx))
    /\ [][/\ (pc = "loop" /\ match = 0 /\ idx < Len(catalog)
                 /\ IsEligible(catalog[idx + 1], responses)) => match' = idx + 1
          /\ match # 0 => match' # 0
          /\ (match # 0 /\ match' # match) =>
                 /\ catalog' = catalog
                 /\ CompositeScore(catalog[match']) > CompositeScore(catalog[match])
         ]_vars

\* the first eligible destination had a negative score and was replaced
C9_Witness ==
    /\ pc = "loop"
    /\ match # 0
    /\ \E i \in EligibleIn(idx) :
         /\ i < match
         /\ CompositeScore(catalog[i]) < 0

(***************************************************************************)
(* C10: the matching run is one pass: every iteration takes the next       *)
(* catalog entry, the catalog does not change, the run is done only when   *)
(* the catalog is exhausted, and a run that entered the loop is eventually *)
(* done.                                                                   *)
(***************************************************************************)
C10_SinglePassTerminates ==
    /\ [][(pc = "loop" /\ pc' = "loop") => (idx' \in {idx, idx + 1} /\ catalog' = catalog)]_vars
    /\ [][(pc = "loop" /\ pc' = "done") => (idx = Len(catalog) /\ catalog' = catalog)]_vars
    /\ [](pc = "done" => idx = Len(catalog))
    /\ (pc = "loop" ~> pc = "done")

\* done after a pass over a catalog of several entries
C10_Witness ==
    /\ pc = "done"
    /\ Len(catalog) >= 2
    /\ idx = Len(catalog)

====
